---- MODULE Spec2Model ----
(***************************************************************************)
(* Model of the dispatch queue manager of the image compression tool       *)
(* (class ImageCompressionTool, src/src/main.ts) together with the message *)
(* loop of its image workers (src/unnamed/part_001).                       *)
(*                                                                         *)
(* The coordinating thread runs one handler at a time: every action below  *)
(* is one handler (or one timer callback) run to completion.  The workers  *)
(* run in parallel and talk to the coordinator only through messages.      *)
(*                                                                         *)
(* The second part of the module follows one Job message through the image *)
(* worker: createImageBitmap, getImageOrientation (one action per turn of  *)
(* its marker loop), the scaling and rotation plan of processImage,        *)
(* applyOrientation and drawImage, convertToBlob and postMessage.          *)
(***************************************************************************)
EXTENDS Naturals, Integers, Sequences, FiniteSets, TLC

\* ------------------------------------------------------------------ bounds
\* Number of file ids the model ever creates (ids are never reused).
MaxFiles == 3
\* Pool size: navigator.hardwareConcurrency || 4 in the code, fixed at startup.
NumWorkers == 2
\* Number of 10 ms timers that may be pending at once.
MaxTimers == 2
\* Number of worker error events in one run.
MaxErrors == 1

\* Number of segments in front of the metadata segment of a generated buffer.
MaxSegments == 1
\* Number of directory entries in front of the orientation entry.
MaxTagsBefore == 1
\* Largest stored orientation value of a generated buffer (0 and 9 are not
\* orientation codes).
MaxCode == 9
\* Largest width and height of a decoded bitmap.
MaxDim == 5
\* Largest maxWidth and maxHeight option.
MaxBound == 3

Ids == 1..MaxFiles
\* A pool with one worker more than maxWorkers.
WorkersOneMore == 1..(NumWorkers + 1)

Workers == 1..NumWorkers

VARIABLES
    files,              \* Map<string, ImageFile>: id -> [processed]
    nextId,             \* the next fresh id addFiles will generate
    workerStatus,       \* Map<Worker, boolean>: TRUE = busy
    processingQueue,    \* string[]: ids awaiting a worker
    processing,         \* boolean
    compressBtnDisabled,\* elements.compressBtn.disabled
    urlCleanupMap,      \* Map<string, string[]>: id -> preview URLs
    objectUrls,         \* URLs created by createObjectURL and not yet revoked
    resultItems,        \* ids with a result item in the results grid (DOM)
    timers,             \* pending setTimeout(_, 10) callbacks, in firing order
    jobs,               \* per worker: Job messages posted whose Result has not arrived
    errors,             \* number of worker error events so far
    batch,              \* history: ids enqueued by the latest startCompression
    done,               \* history: ids of batch whose Result has been handled
    failed,             \* history: a failure Result was recorded in this batch
    refused,            \* history: startCompression was refused with new files present
    late,               \* history: a Result arrived for a file removed by clearAll
    superseded,         \* history: a result item has been replaced since the last clearAll
    wpc,                \* image worker: position in onmessage / processImage
    data,               \* image worker: event.data, the Job message being processed
    image,              \* image worker: what createImageBitmap yields for data.imageData
    offset,             \* getImageOrientation: offset of the marker loop
    turns,              \* history: turns of the marker loop taken on this message
    orientation,        \* processImage: orientation (0 = not yet read)
    scaled,             \* processImage: width, height after scaling
    display,            \* processImage: displayWidth, displayHeight
    canvas,             \* the OffscreenCanvas: width, height, current transform
    posted              \* Results posted by the worker for the message in data

\* The coordinator's state and the image worker's state.
mvars == <<files, nextId, workerStatus, processingQueue, processing,
           compressBtnDisabled, urlCleanupMap, objectUrls, resultItems, timers,
           jobs, errors, batch, done, failed, refused, late, superseded>>

wvars == <<wpc, data, image, offset, turns, orientation, scaled, display, canvas, posted>>

vars == <<mvars, wvars>>

history == <<batch, done, failed, refused, late, superseded>>

\* ----------------------------------------------------------------- helpers
Min(a, b) == IF a <= b THEN a ELSE b

Range(s) == {s[i] : i \in 1..Len(s)}

RemoveAt(s, i) == [k \in 1..(Len(s) - 1) |-> IF k < i THEN s[k] ELSE s[k + 1]]

\* Array.from(this.files.keys()): Map iterates in insertion order, and ids are
\* generated in increasing order, so the keys come out ascending.
RECURSIVE KeysFrom(_, _)
KeysFrom(S, k) ==
    IF k > MaxFiles THEN <<>>
    ELSE IF k \in S THEN <<k>> \o KeysFrom(S, k + 1)
    ELSE KeysFrom(S, k + 1)

FileKeys == KeysFrom(DOMAIN files, 1)

\* Array.from(this.files.values()).filter(f => f.processed).length
CompletedCount(fs) == Cardinality({id \in DOMAIN fs : fs[id].processed})

\* The timer records.
ProcessNextTimer == [type |-> "processNext", worker |-> 0, id |-> 0]
SendTimer(w, id) == [type |-> "send", worker |-> w, id |-> id]

\* URL.createObjectURL returns a handle that is not in use.  Handles are
\* opaque; the model names the n-th live handle made for a file <<fileId, n>>.
FreshUrl(live, fileId) ==
    <<fileId, CHOOSE n \in 1..(Cardinality(live) + 1) :
                 /\ <<fileId, n>> \notin live
                 /\ \A m \in 1..(n - 1) : <<fileId, m>> \in live>>

\* Number of jobs assigned to worker w whose Result has not arrived: jobs
\* waiting for their delayed send and jobs posted to the worker.
SendsPending(w) == {i \in 1..Len(timers) : timers[i].type = "send" /\ timers[i].worker = w}
AssignedCount(w) == Cardinality(SendsPending(w)) + Len(jobs[w])

\* Number of Job messages for id that are posted and whose Result has not arrived.
PostedOn(w, id) == Cardinality({i \in 1..Len(jobs[w]) : jobs[w][i] = id})

\* No timer is pending and no message is in flight.
Quiescent ==
    /\ timers = <<>>
    /\ \A w \in Workers : jobs[w] = <<>>

\* ------------------------------------------------------------ image worker
\* DataView reads.  A byte buffer is a sequence of bytes (0..255); byteOffset
\* counts from 0.  A read that reaches past the end of the buffer throws a
\* RangeError.
RangeError == -1

GetUint16(buf, byteOffset, littleEndian) ==
    IF byteOffset + 2 > Len(buf) THEN RangeError
    ELSE IF littleEndian
    THEN buf[byteOffset + 1] + 256 * buf[byteOffset + 2]
    ELSE 256 * buf[byteOffset + 1] + buf[byteOffset + 2]

\* A 32-bit read is carried as its two 16-bit halves <<high, low>>.
GetUint32(buf, byteOffset, littleEndian) ==
    IF byteOffset + 4 > Len(buf) THEN <<RangeError, RangeError>>
    ELSE IF littleEndian
    THEN <<GetUint16(buf, byteOffset + 2, TRUE), GetUint16(buf, byteOffset, TRUE)>>
    ELSE <<GetUint16(buf, byteOffset, FALSE), GetUint16(buf, byteOffset + 2, FALSE)>>

\* A 32-bit value used as a byte offset.  Every buffer of the model is
\* shorter than 65536 bytes, so an offset with a non-zero high half lies
\* past the end of the buffer, as 65536 does.
ToOffset(u) == IF u[1] > 0 THEN 65536 ELSE u[2]

\* The values getImageOrientation compares with.
SOI == 65496
APP1 == 65505
ExifSignature == <<17784, 26982>>
IntelByteOrder == 18761
OrientationTag == 274

\* The for loop over the directory entries, from entry i on: the value of the
\* orientation entry if there is one, 1 if the loop ends without one.
RECURSIVE ReadTagsBigEndianValue(_, _, _, _, _)
ReadTagsBigEndianValue(buf, dirOffset, i, tagCount, littleEndian) ==
    IF i >= tagCount THEN 1
    ELSE LET tagOffset == dirOffset + 2 + (i * 12)
             tag == GetUint16(buf, tagOffset, littleEndian)
         IN  IF tag = RangeError THEN RangeError
             ELSE IF tag = OrientationTag
             THEN GetUint16(buf, tagOffset + 8, FALSE)
             ELSE ReadTagsBigEndianValue(buf, dirOffset, i + 1, tagCount, littleEndian)

RECURSIVE ReadTags(_, _, _, _, _)
ReadTags(buf, dirOffset, i, tagCount, littleEndian) ==
    IF i >= tagCount THEN 1
    ELSE LET tagOffset == dirOffset + 2 + (i * 12)
             tag == GetUint16(buf, tagOffset, littleEndian)
         IN  IF tag = RangeError THEN RangeError
             ELSE IF tag = OrientationTag
             THEN GetUint16(buf, tagOffset + 8, littleEndian)
             ELSE ReadTags(buf, dirOffset, i + 1, tagCount, littleEndian)

\* The body of "if (marker === 0xFFE1)": off is the offset of the segment's
\* length field.  The result is the value returned, 1 when the loop is left
\* by break, or RangeError.
ReadExif(buf, off) ==
    LET sigOffset == off + 2
        tiffOffset == sigOffset + 6
        signature == GetUint32(buf, sigOffset, FALSE)
        byteOrder == GetUint16(buf, tiffOffset, FALSE)
        littleEndian == (byteOrder = IntelByteOrder)
        ifdOffset == GetUint32(buf, tiffOffset + 4, littleEndian)
        dirOffset == tiffOffset + ToOffset(ifdOffset)
        tagCount == GetUint16(buf, dirOffset, littleEndian)
    IN  IF signature[1] = RangeError THEN RangeError
        ELSE IF signature # ExifSignature THEN 1
        ELSE IF byteOrder = RangeError THEN RangeError
        ELSE IF ifdOffset[1] = RangeError THEN RangeError
        ELSE IF tagCount = RangeError THEN RangeError
        ELSE ReadTags(buf, dirOffset, 0, tagCount, littleEndian)

\* Variant of the loop turn that skips a segment by its stored length alone,
\* without the two bytes of the marker.
LoopTurnWithoutMarker(buf, off) ==
    LET marker == GetUint16(buf, off, FALSE)
        segmentLength == GetUint16(buf, off + 2, FALSE)
    IN  IF off >= Len(buf) THEN [then |-> "return", value |-> 1]
        ELSE IF marker = RangeError THEN [then |-> "throw", value |-> RangeError]
        ELSE IF marker = APP1
        THEN IF ReadExif(buf, off + 2) = RangeError
             THEN [then |-> "throw", value |-> RangeError]
             ELSE [then |-> "return", value |-> ReadExif(buf, off + 2)]
        ELSE IF marker \div 256 # 255 THEN [then |-> "return", value |-> 1]
        ELSE IF segmentLength = RangeError THEN [then |-> "throw", value |-> RangeError]
        ELSE [then |-> "loop", value |-> off + segmentLength]

\* One turn of "while (offset < length)", entered with offset = off.  The
\* result says how the turn ends: the loop goes on at a new offset, the
\* function returns a value, or a read throws.
LoopTurn(buf, off) ==
    LET marker == GetUint16(buf, off, FALSE)
        segmentLength == GetUint16(buf, off + 2, FALSE)
    IN  IF off >= Len(buf) THEN [then |-> "return", value |-> 1]
        ELSE IF marker = RangeError THEN [then |-> "throw", value |-> RangeError]
        ELSE IF marker = APP1
        THEN IF ReadExif(buf, off + 2) = RangeError
             THEN [then |-> "throw", value |-> RangeError]
             ELSE [then |-> "return", value |-> ReadExif(buf, off + 2)]
        ELSE IF marker \div 256 # 255 THEN [then |-> "return", value |-> 1]
        ELSE IF segmentLength = RangeError THEN [then |-> "throw", value |-> RangeError]
        ELSE [then |-> "loop", value |-> off + 2 + segmentLength]

\* Math.round(a / b) for a >= 0, b > 0: the nearest integer, halves upwards.
Round(a, b) == (2 * a + b) \div (2 * b)

\* Scaling that rounds downwards.
ScaledDimensionsFloor(width, height, maxWidth, maxHeight) ==
    IF width > maxWidth \/ height > maxHeight
    THEN IF maxWidth * height <= maxHeight * width
         THEN [width |-> (width * maxWidth) \div width,
               height |-> (height * maxWidth) \div width]
         ELSE [width |-> (width * maxHeight) \div height,
               height |-> (height * maxHeight) \div height]
    ELSE [width |-> width, height |-> height]

\* Scaling that applies the ratio whether or not the bitmap exceeds a bound.
ScaledDimensionsAlways(width, height, maxWidth, maxHeight) ==
    IF maxWidth * height <= maxHeight * width
    THEN [width |-> Round(width * maxWidth, width),
          height |-> Round(height * maxWidth, width)]
    ELSE [width |-> Round(width * maxHeight, height),
          height |-> Round(height * maxHeight, height)]

\* processImage: the scaled width and height.  ratio is the smaller of
\* maxWidth / width and maxHeight / height, kept as a fraction.
ScaledDimensions(width, height, maxWidth, maxHeight) ==
    IF width > maxWidth \/ height > maxHeight
    THEN IF maxWidth * height <= maxHeight * width
         THEN [width |-> Round(width * maxWidth, width),
               height |-> Round(height * maxWidth, width)]
         ELSE [width |-> Round(width * maxHeight, height),
               height |-> Round(height * maxHeight, height)]
    ELSE [width |-> width, height |-> height]

\* A 2D transform is <<a, b, c, d, e, f>>: x' = a x + c y + e, y' = b x + d y + f.
Identity == <<1, 0, 0, 1, 0, 0>>

\* applyOrientation(canvas, ctx, orientation): width and height are read from
\* the canvas as it is on entry.  Assigning canvas.width or canvas.height
\* resets the context, so the transform afterwards is the one given.
ApplyOrientation(cv, o) ==
    LET width == cv.width
        height == cv.height
    IN  CASE o = 2 -> [cv EXCEPT !.transform = <<-1, 0, 0, 1, width, 0>>]
          [] o = 3 -> [cv EXCEPT !.transform = <<-1, 0, 0, -1, width, height>>]
          [] o = 4 -> [cv EXCEPT !.transform = <<1, 0, 0, -1, 0, height>>]
          [] o = 5 -> [width |-> height, height |-> width,
                       transform |-> <<0, 1, 1, 0, 0, 0>>]
          [] o = 6 -> [width |-> height, height |-> width,
                       transform |-> <<0, 1, -1, 0, height, 0>>]
          [] o = 7 -> [width |-> height, height |-> width,
                       transform |-> <<0, -1, -1, 0, height, width>>]
          [] o = 8 -> [width |-> height, height |-> width,
                       transform |-> <<0, -1, 1, 0, 0, width>>]
          [] OTHER -> cv

\* Absent fields of a message.
Undefined == "undefined"

\* The Result returned from the catch block of processImage.
FailureResultNoFilename(d, message) ==
    [id |-> d.id, success |-> FALSE, compressedData |-> Undefined,
     compressedDimensions |-> [width |-> 0, height |-> 0],
     filename |-> Undefined, error |-> message]

FailureResult(d, message) ==
    [id |-> d.id, success |-> FALSE, compressedData |-> Undefined,
     compressedDimensions |-> [width |-> 0, height |-> 0],
     filename |-> d.filename, error |-> message]

\* The Result returned at the end of the try block.
SuccessResult(d, dims) ==
    [id |-> d.id, success |-> TRUE, compressedData |-> "ArrayBuffer",
     compressedDimensions |-> dims,
     filename |-> d.filename, error |-> Undefined]

\* The worker before a message has arrived.
NoData == [id |-> 0, filename |-> Undefined, imageData |-> <<>>,
           options |-> [maxWidth |-> 0, maxHeight |-> 0]]
NoImage == [decodable |-> FALSE, width |-> 0, height |-> 0]
NoCanvas == [width |-> 0, height |-> 0, transform |-> Identity]

LocalsUnset ==
    /\ offset = 0
    /\ turns = 0
    /\ orientation = 0
    /\ scaled = [width |-> 0, height |-> 0]
    /\ display = [width |-> 0, height |-> 0]
    /\ canvas = NoCanvas

WorkerIdle ==
    /\ wpc = "idle"
    /\ data = NoData
    /\ image = NoImage
    /\ LocalsUnset
    /\ posted = <<>>

\* -------------------------------------------------------------------- Init
Init ==
    /\ files = <<>>
    /\ nextId = 1
    /\ workerStatus = [w \in Workers |-> FALSE]
    /\ processingQueue = <<>>
    /\ processing = FALSE
    /\ compressBtnDisabled = FALSE
    /\ urlCleanupMap = <<>>
    /\ objectUrls = {}
    /\ resultItems = {}
    /\ timers = <<>>
    /\ jobs = [w \in Workers |-> <<>>]
    /\ errors = 0
    /\ batch = {}
    /\ done = {}
    /\ failed = FALSE
    /\ refused = FALSE
    /\ late = FALSE
    /\ superseded = FALSE
    /\ WorkerIdle

\* ------------------------------------------------------------ coordinator
\* workers.find(w => !workerStatus.get(w)): the first idle worker, if any.
IdleWorkers(ws) == {w \in Workers : ~ws[w]}
AvailableWorker(ws) == CHOOSE w \in IdleWorkers(ws) : \A v \in IdleWorkers(ws) : w <= v

\* sendImageToWorker: worker.postMessage({id, imageData, filename, options}).
SendImageToWorker(js, w, id) == [js EXCEPT ![w] = Append(@, id)]

\* One call of the closure processNext on the coordinator state
\* st = [q, ws, js, ts] (queue, worker status, posted jobs, timers).
ProcessNext(st) ==
    IF st.q = <<>> THEN st
    ELSE IF IdleWorkers(st.ws) = {} THEN st
    ELSE LET w == AvailableWorker(st.ws)
             fileId == Head(st.q)
         IN  [q  |-> Tail(st.q),
              ws |-> [st.ws EXCEPT ![w] = TRUE],
              js |-> SendImageToWorker(st.js, w, fileId),
              ts |-> Append(st.ts, ProcessNextTimer)]

\* for (let i = 0; i < n; i++) processNext();
RECURSIVE ProcessNextTimes(_, _)
ProcessNextTimes(n, st) ==
    IF n = 0 THEN st ELSE ProcessNextTimes(n - 1, ProcessNext(st))

\* addFiles, one file: a fresh id is generated and the file is registered
\* unprocessed (the loop awaits between files, so each file is its own step).
AddFile ==
    /\ nextId <= MaxFiles
    /\ files' = files @@ (nextId :> [processed |-> FALSE])
    /\ nextId' = nextId + 1
    /\ refused' = FALSE
    /\ UNCHANGED <<workerStatus, processingQueue, processing, compressBtnDisabled,
                   urlCleanupMap, objectUrls, resultItems, timers, jobs, errors,
                   batch, done, failed, late, superseded>>
    /\ UNCHANGED wvars

\* startCompression when this.processing is already true: it returns at once.
StartCompressionRefused ==
    /\ DOMAIN files # {}
    /\ processing
    /\ refused' = (refused \/ ~(DOMAIN files \subseteq batch))
    /\ UNCHANGED <<files, nextId, workerStatus, processingQueue, processing,
                   compressBtnDisabled, urlCleanupMap, objectUrls, resultItems,
                   timers, jobs, errors, batch, done, failed, late, superseded>>
    /\ UNCHANGED wvars

\* startCompression: the queue becomes all file ids and processNext is called
\* min(maxWorkers, total) times.
StartCompressionAccepted ==
    /\ DOMAIN files # {}
    /\ ~processing
    /\ LET queue == FileKeys
           total == Len(queue)
           st == ProcessNextTimes(Min(NumWorkers, total),
                                  [q |-> queue, ws |-> workerStatus,
                                   js |-> jobs, ts |-> timers])
       IN  /\ Len(st.ts) <= MaxTimers
           /\ processing' = TRUE
           /\ compressBtnDisabled' = TRUE
           /\ processingQueue' = st.q
           /\ workerStatus' = st.ws
           /\ jobs' = st.js
           /\ timers' = st.ts
    /\ batch' = DOMAIN files
    /\ done' = {}
    /\ failed' = FALSE
    /\ refused' = FALSE
    /\ UNCHANGED <<files, nextId, urlCleanupMap, objectUrls, resultItems, errors, late,
                   superseded>>
    /\ UNCHANGED wvars

StartCompression == StartCompressionRefused \/ StartCompressionAccepted

\* setTimeout(processNext, 10) fires.
ProcessNextFires ==
    /\ timers # <<>>
    /\ Head(timers).type = "processNext"
    /\ LET st == ProcessNext([q |-> processingQueue, ws |-> workerStatus,
                              js |-> jobs, ts |-> Tail(timers)])
       IN  /\ processingQueue' = st.q
           /\ workerStatus' = st.ws
           /\ jobs' = st.js
           /\ timers' = st.ts
    /\ UNCHANGED <<files, nextId, processing, compressBtnDisabled, urlCleanupMap,
                   objectUrls, resultItems, errors, history>>
    /\ UNCHANGED wvars

\* The delayed send scheduled by handleWorkerMessage fires: the job is posted
\* with the file record captured when the timer was set.
DelayedSendFires ==
    /\ timers # <<>>
    /\ Head(timers).type = "send"
    /\ jobs' = SendImageToWorker(jobs, Head(timers).worker, Head(timers).id)
    /\ timers' = Tail(timers)
    /\ UNCHANGED <<files, nextId, workerStatus, processingQueue, processing,
                   compressBtnDisabled, urlCleanupMap, objectUrls, resultItems,
                   errors, history>>
    /\ UNCHANGED wvars

\* cleanupUrlsForFile: revoke the URLs registered for fileId and drop the entry.
\* A URL state is u = [map, live].
CleanupUrlsForFile(u, fileId) ==
    IF fileId \in DOMAIN u.map
    THEN [map  |-> [k \in DOMAIN u.map \ {fileId} |-> u.map[k]],
          live |-> u.live \ u.map[fileId]]
    ELSE u

\* createResultItem: two object URLs are created and registered under the id.
CreateResultItem(u, fileId) ==
    LET originalUrl == FreshUrl(u.live, fileId)
        compressedUrl == FreshUrl(u.live \cup {originalUrl}, fileId)
    IN  [map  |-> (fileId :> {originalUrl, compressedUrl})
                  @@ [k \in DOMAIN u.map \ {fileId} |-> u.map[k]],
         live |-> u.live \cup {originalUrl, compressedUrl}]

\* Variant of addResultItem that does not clean up the URLs of the item it
\* replaces.
AddResultItemNoCleanup(u, items, fileId) == CreateResultItem(u, fileId)

\* addResultItem: an existing result item of the file is removed, after its
\* URLs have been cleaned up, and a new item is created and appended.
AddResultItem(u, items, fileId) ==
    CreateResultItem(IF fileId \in items THEN CleanupUrlsForFile(u, fileId) ELSE u,
                     fileId)

\* Variant of DiscardLateResult that returns before the worker is marked idle.
DiscardLateResultKeepsBusy(w) ==
    UNCHANGED <<workerStatus, files, processingQueue, processing, compressBtnDisabled,
                urlCleanupMap, objectUrls, resultItems, timers>>

\* handleWorkerMessage when this.files has no entry for result.id: the worker
\* is marked idle and the handler returns.
DiscardLateResult(w) ==
    /\ workerStatus' = [workerStatus EXCEPT ![w] = FALSE]
    /\ UNCHANGED <<files, processingQueue, processing, compressBtnDisabled,
                   urlCleanupMap, objectUrls, resultItems, timers>>

\* handleWorkerMessage for a file that is still registered.
RecordResult(w, result) ==
    LET id == result.id
        files1 == IF result.success
                  THEN [files EXCEPT ![id] = [processed |-> TRUE]]
                  ELSE files
        u1 == IF result.success
              THEN AddResultItem([map |-> urlCleanupMap, live |-> objectUrls],
                                 resultItems, id)
              ELSE [map |-> urlCleanupMap, live |-> objectUrls]
        completedCount == CompletedCount(files1)
        total == Cardinality(DOMAIN files1)
    IN  /\ files' = files1
        /\ urlCleanupMap' = u1.map
        /\ objectUrls' = u1.live
        /\ resultItems' = IF result.success THEN resultItems \cup {id} ELSE resultItems
        /\ IF completedCount = total
           THEN /\ processing' = FALSE
                /\ compressBtnDisabled' = FALSE
                /\ workerStatus' = [workerStatus EXCEPT ![w] = FALSE]
                /\ UNCHANGED <<processingQueue, timers>>
           ELSE IF processingQueue # <<>>
           THEN /\ processingQueue' = Tail(processingQueue)
                /\ workerStatus' = [workerStatus EXCEPT ![w] = TRUE]
                /\ timers' = Append(timers, SendTimer(w, Head(processingQueue)))
                /\ UNCHANGED <<processing, compressBtnDisabled>>
           ELSE /\ workerStatus' = [workerStatus EXCEPT ![w] = FALSE]
                /\ UNCHANGED <<processingQueue, timers, processing, compressBtnDisabled>>

\* worker.onmessage = handleWorkerMessage: the Result of one of the Job
\* messages posted to worker w arrives.  The worker answers every Job message
\* with exactly one Result carrying the job's id, success or failure, and
\* since processImage awaits, a later job may be answered before an earlier one.
HandleWorkerMessage(w) ==
    /\ \E i \in 1..Len(jobs[w]) : \E ok \in BOOLEAN :
          LET result == [id |-> jobs[w][i], success |-> ok]
          IN  /\ jobs' = [jobs EXCEPT ![w] = RemoveAt(@, i)]
              /\ IF result.id \notin DOMAIN files
                 THEN /\ DiscardLateResult(w)
                      /\ late' = TRUE
                      /\ UNCHANGED <<done, failed, superseded>>
                 ELSE /\ RecordResult(w, result)
                      /\ done' = done \cup ({result.id} \cap batch)
                      /\ failed' = (failed \/ ~result.success)
                      /\ superseded' = (superseded \/ (result.success /\ result.id \in resultItems))
                      /\ UNCHANGED late
    /\ Len(timers') <= MaxTimers
    /\ UNCHANGED <<nextId, errors, batch, refused>>
    /\ UNCHANGED wvars

\* worker.onerror: the worker is marked idle.  The jobs the worker holds are
\* either lost with the fault or still answered later.  (For an idle worker
\* that holds no job the handler changes nothing.)
WorkerError(w) ==
    /\ errors < MaxErrors
    /\ workerStatus[w] \/ jobs[w] # <<>>
    /\ errors' = errors + 1
    /\ workerStatus' = [workerStatus EXCEPT ![w] = FALSE]
    /\ \E lost \in BOOLEAN :
          jobs' = IF lost THEN [jobs EXCEPT ![w] = <<>>] ELSE jobs
    /\ UNCHANGED <<files, nextId, processingQueue, processing, compressBtnDisabled,
                   urlCleanupMap, objectUrls, resultItems, timers, history>>
    /\ UNCHANGED wvars

\* cleanupAllUrls: every registered URL is revoked and the registry emptied.
CleanupAllUrls(u) ==
    [map |-> <<>>, live |-> u.live \ UNION {u.map[k] : k \in DOMAIN u.map}]

\* Variant of clearAll that leaves the pending queue as it is.
ClearAllKeepsQueue ==
    /\ LET u == CleanupAllUrls([map |-> urlCleanupMap, live |-> objectUrls])
       IN  /\ urlCleanupMap' = u.map
           /\ objectUrls' = u.live
    /\ files' = <<>>
    /\ processing' = FALSE
    /\ resultItems' = {}
    /\ compressBtnDisabled' = FALSE
    /\ batch' = {}
    /\ done' = {}
    /\ failed' = FALSE
    /\ refused' = FALSE
    /\ superseded' = FALSE
    /\ UNCHANGED <<processingQueue, nextId, workerStatus, timers, jobs, errors, late>>
    /\ UNCHANGED wvars

\* clearAll
ClearAll ==
    /\ LET u == CleanupAllUrls([map |-> urlCleanupMap, live |-> objectUrls])
       IN  /\ urlCleanupMap' = u.map
           /\ objectUrls' = u.live
    /\ files' = <<>>
    /\ processingQueue' = <<>>
    /\ processing' = FALSE
    /\ resultItems' = {}
    /\ compressBtnDisabled' = FALSE
    /\ batch' = {}
    /\ done' = {}
    /\ failed' = FALSE
    /\ refused' = FALSE
    /\ superseded' = FALSE
    /\ UNCHANGED <<nextId, workerStatus, timers, jobs, errors, late>>
    /\ UNCHANGED wvars

\* --------------------------------------------------- image worker: messages
\* The byte buffers the model sends.  A generated buffer is a JPEG stream:
\* SOI, n segments that are not metadata segments, the metadata segment
\* ("Exif", a TIFF header in the declared byte order, one directory whose
\* last entry is the orientation entry) and EOI.
U16(v, littleEndian) ==
    IF littleEndian THEN <<v % 256, v \div 256>> ELSE <<v \div 256, v % 256>>

U32(v, littleEndian) ==
    IF littleEndian THEN U16(v, TRUE) \o <<0, 0>> ELSE <<0, 0>> \o U16(v, FALSE)

Zeros(n) == [i \in 1..n |-> 0]

\* A directory entry: tag, type SHORT, count 1, the value and two unused bytes.
Entry(tag, value, littleEndian) ==
    U16(tag, littleEndian) \o U16(3, littleEndian) \o U32(1, littleEndian)
        \o U16(value, littleEndian) \o <<0, 0>>

RECURSIVE EntriesBefore(_, _)
EntriesBefore(n, littleEndian) ==
    IF n = 0 THEN <<>>
    ELSE EntriesBefore(n - 1, littleEndian) \o Entry(255 + n, n, littleEndian)

Tiff(littleEndian, pad, before, c) ==
    (IF littleEndian THEN <<73, 73>> ELSE <<77, 77>>)
        \o U16(42, littleEndian) \o U32(8 + pad, littleEndian) \o Zeros(pad)
        \o U16(before + 1, littleEndian) \o EntriesBefore(before, littleEndian)
        \o Entry(274, c, littleEndian) \o <<0, 0, 0, 0>>

MetadataSegment(littleEndian, pad, before, c) ==
    LET tiff == Tiff(littleEndian, pad, before, c)
    IN  <<255, 225>> \o U16(2 + 6 + Len(tiff), FALSE)
            \o <<69, 120, 105, 102, 0, 0>> \o tiff

\* The k-th segment in front of the metadata segment: a marker other than
\* APP1, the stored length, and a payload that starts with the bytes of an
\* APP1 marker.
RECURSIVE OtherSegments(_)
OtherSegments(k) ==
    IF k = 0 THEN <<>>
    ELSE OtherSegments(k - 1)
             \o <<255, 225 - k>> \o U16(2 + 2 * k, FALSE) \o <<255, 225>> \o Zeros(2 * (k - 1))

Jpeg(n, littleEndian, pad, before, c) ==
    <<255, 216>> \o OtherSegments(n) \o MetadataSegment(littleEndian, pad, before, c)
        \o <<255, 217>>

\* The well-formed buffers whose orientation entry stores c.
WellFormed(c) ==
    {Jpeg(n, le, pad, before, c) :
        n \in 0..MaxSegments, le \in BOOLEAN, pad \in {0, 2}, before \in 0..MaxTagsBefore}

\* Damaged buffers: a well-formed buffer cut short, or with one byte replaced.
Truncations(buf) == {SubSeq(buf, 1, k) : k \in 0..(Len(buf) - 1)}
Patches(buf) == {[buf EXCEPT ![p] = b] : p \in 1..Len(buf), b \in {0, 255}}

\* The well-formed buffers, by the value their orientation entry stores.
WellFormedByCode == [c \in 0..MaxCode |-> WellFormed(c)]

Buffers ==
    UNION {WellFormedByCode[c] : c \in 0..MaxCode}
        \cup UNION {Truncations(buf) \cup Patches(buf) : buf \in WellFormedByCode[6]}

\* createImageBitmap decodes a generated buffer (its image content is left
\* out of the model) when the stream is whole: it starts with SOI and ends
\* with EOI.
Decodes(buf) ==
    /\ Len(buf) >= 4
    /\ SubSeq(buf, 1, 2) = <<255, 216>>
    /\ SubSeq(buf, Len(buf) - 1, Len(buf)) = <<255, 217>>

\* The Job messages of the model, each with the bitmap createImageBitmap
\* yields for its bytes: one family varies the bytes, one the bitmap's size,
\* the bounds and the stored orientation, one the id, the filename and
\* whether the bytes (of a PNG file, sound or damaged) decode.
JobsByBuffer ==
    {[data  |-> [id |-> 1, filename |-> "a.jpg", imageData |-> buf,
                 options |-> [maxWidth |-> MaxBound, maxHeight |-> MaxBound]],
      image |-> [decodable |-> Decodes(buf), width |-> MaxDim, height |-> 1]] :
        buf \in Buffers}

JobsByDimensions ==
    {[data  |-> [id |-> 1, filename |-> "a.jpg",
                 imageData |-> Jpeg(0, FALSE, 0, 0, c),
                 options |-> [maxWidth |-> mw, maxHeight |-> mh]],
      image |-> [decodable |-> TRUE, width |-> w, height |-> h]] :
        c \in 0..MaxCode, w \in 1..MaxDim, h \in 1..MaxDim,
        mw \in 1..MaxBound, mh \in 1..MaxBound}

JobsById ==
    {[data  |-> [id |-> id, filename |-> name, imageData |-> <<137, 80, 78, 71>>,
                 options |-> [maxWidth |-> MaxBound, maxHeight |-> MaxBound]],
      image |-> [decodable |-> dec, width |-> 2, height |-> 1]] :
        id \in Ids, name \in {"a.jpg", "b.png"}, dec \in BOOLEAN}

JobMessages == JobsByBuffer \cup JobsByDimensions \cup JobsById

\* ---------------------------------------------------- image worker: actions
\* The catch block of processImage followed by postMessage in onmessage.
Throw(message) ==
    /\ posted' = Append(posted, FailureResult(data, message))
    /\ wpc' = "posted"

\* self.onmessage: a Job message arrives at the waiting worker and
\* processImage starts on it.
OnMessage ==
    /\ wpc = "idle"
    /\ \E m \in JobMessages :
          /\ data' = m.data
          /\ image' = m.image
    /\ wpc' = "received"
    /\ UNCHANGED <<offset, turns, orientation, scaled, display, canvas, posted>>
    /\ UNCHANGED mvars

\* The handler has posted its Result and returns: its locals are gone, the
\* Result is on its way to the coordinator and the worker waits for the next
\* message.
OnMessageReturns ==
    /\ wpc = "posted"
    /\ wpc' = "idle"
    /\ data' = NoData
    /\ image' = NoImage
    /\ offset' = 0
    /\ turns' = 0
    /\ orientation' = 0
    /\ scaled' = [width |-> 0, height |-> 0]
    /\ display' = [width |-> 0, height |-> 0]
    /\ canvas' = NoCanvas
    /\ posted' = <<>>
    /\ UNCHANGED mvars

\* await createImageBitmap(blob): rejects when the bytes are not an image.
CreateImageBitmap ==
    /\ wpc = "received"
    /\ IF image.decodable
       THEN /\ wpc' = "decoded"
            /\ UNCHANGED posted
       ELSE Throw("InvalidStateError")
    /\ UNCHANGED <<data, image, offset, turns, orientation, scaled, display, canvas>>
    /\ UNCHANGED mvars

\* getImageOrientation up to the marker loop.
GetImageOrientationEnter ==
    /\ wpc = "decoded"
    /\ LET first == GetUint16(data.imageData, 0, FALSE)
       IN  IF first = RangeError
           THEN /\ Throw("RangeError")
                /\ UNCHANGED <<offset, orientation>>
           ELSE IF first # SOI
           THEN /\ orientation' = 1
                /\ wpc' = "oriented"
                /\ UNCHANGED <<offset, posted>>
           ELSE /\ offset' = 2
                /\ wpc' = "scanning"
                /\ UNCHANGED <<orientation, posted>>
    /\ UNCHANGED <<data, image, turns, scaled, display, canvas>>
    /\ UNCHANGED mvars

\* One turn of the marker loop of getImageOrientation (or its end).
GetImageOrientationLoop ==
    /\ wpc = "scanning"
    /\ LET turn == LoopTurn(data.imageData, offset)
       IN  CASE turn.then = "throw" ->
                   /\ Throw("RangeError")
                   /\ UNCHANGED <<offset, orientation>>
             [] turn.then = "return" ->
                   /\ orientation' = turn.value
                   /\ wpc' = "oriented"
                   /\ UNCHANGED <<offset, posted>>
             [] turn.then = "loop" ->
                   /\ offset' = turn.value
                   /\ UNCHANGED <<wpc, orientation, posted>>
    /\ turns' = IF offset < Len(data.imageData) THEN turns + 1 ELSE turns
    /\ UNCHANGED <<data, image, scaled, display, canvas>>
    /\ UNCHANGED mvars

\* processImage from the scaling to the creation of the canvas.
PlanCanvas ==
    /\ wpc = "oriented"
    /\ LET dims == ScaledDimensions(image.width, image.height,
                                    data.options.maxWidth, data.options.maxHeight)
           needsRotation == orientation > 4
           displayWidth == IF needsRotation THEN dims.height ELSE dims.width
           displayHeight == IF needsRotation THEN dims.width ELSE dims.height
       IN  /\ scaled' = dims
           /\ display' = [width |-> displayWidth, height |-> displayHeight]
           /\ canvas' = [width |-> displayWidth, height |-> displayHeight,
                         transform |-> Identity]
    /\ wpc' = "planned"
    /\ UNCHANGED <<data, image, offset, turns, orientation, posted>>
    /\ UNCHANGED mvars

\* applyOrientation(canvas, ctx, orientation); ctx.drawImage(bitmap, 0, 0,
\* width, height): the bitmap is drawn onto the rectangle of the scaled size
\* at the origin, under the transform that is current then.
DrawImage ==
    /\ wpc = "planned"
    /\ canvas' = ApplyOrientation(canvas, orientation)
    /\ wpc' = "drawn"
    /\ UNCHANGED <<data, image, offset, turns, orientation, scaled, display, posted>>
    /\ UNCHANGED mvars

\* await canvas.convertToBlob(...), the Result and postMessage.  The encoding
\* may fail, and fails for a canvas without pixels.
ConvertToBlob ==
    /\ wpc = "drawn"
    /\ \E ok \in (IF canvas.width = 0 \/ canvas.height = 0 THEN {FALSE} ELSE BOOLEAN) :
          IF ok
          THEN /\ posted' = Append(posted, SuccessResult(data, display))
               /\ wpc' = "posted"
          ELSE Throw("EncodingError")
    /\ UNCHANGED <<data, image, offset, turns, orientation, scaled, display, canvas>>
    /\ UNCHANGED mvars

\* ------------------------------------------------------------------- Spec
Next ==
    \/ AddFile
    \/ StartCompression
    \/ ProcessNextFires
    \/ DelayedSendFires
    \/ \E w \in Workers : HandleWorkerMessage(w)
    \/ \E w \in Workers : WorkerError(w)
    \/ ClearAll

Spec == Init /\ [][Next]_vars

\* The same system when no worker raises an error event.
NextNoFault ==
    \/ AddFile
    \/ StartCompression
    \/ ProcessNextFires
    \/ DelayedSendFires
    \/ \E w \in Workers : HandleWorkerMessage(w)
    \/ ClearAll

SpecNoFault == Init /\ [][NextNoFault]_vars

\* One image worker, fed Job messages one after the other.
NextWorker ==
    \/ OnMessage
    \/ CreateImageBitmap
    \/ GetImageOrientationEnter
    \/ GetImageOrientationLoop
    \/ PlanCanvas
    \/ DrawImage
    \/ ConvertToBlob
    \/ OnMessageReturns

SpecWorker == Init /\ [][NextWorker]_vars

TypeOK ==
    /\ DOMAIN files \subseteq Ids
    /\ Range(processingQueue) \subseteq DOMAIN files
    /\ DOMAIN urlCleanupMap = resultItems
    /\ Len(timers) <= MaxTimers

\* ---------------------------------------------------------------- claims
\* Ids removed by clearAll: generated earlier and no longer registered.
Cleared == (1..(nextId - 1)) \ DOMAIN files

\* Delayed sends pending for id, among the timers ts.
SendsPendingFor(ts, id) == {i \in 1..Len(ts) : ts[i].type = "send" /\ ts[i].id = id}

\* Jobs for id among the posted messages js (sequences, one per worker).
RECURSIVE PostedCount(_, _, _)
PostedCount(js, id, w) ==
    IF w = 0 THEN 0
    ELSE Cardinality({i \in 1..Len(js[w]) : js[w][i] = id}) + PostedCount(js, id, w - 1)

\* Number of jobs for id that are assigned to some worker and unanswered:
\* waiting for their delayed send, or posted.
Assignments(ts, js, id) ==
    Cardinality(SendsPendingFor(ts, id)) + PostedCount(js, id, NumWorkers)

\* C1: no worker has two jobs assigned to it at once: a worker that has been
\* handed a job is not handed another one before the Result of the first has
\* arrived.
C1_OneJobPerWorker == \A w \in Workers : AssignedCount(w) <= 1

\* C2: a job id is in flight on at most one worker at any instant: an id that
\* has been posted is not posted again until its Result has arrived.
C2_IdOnOneWorker ==
    \A id \in Ids :
        /\ \A w \in Workers : PostedOn(w, id) <= 1
        /\ \A w, v \in Workers : w # v => ~(PostedOn(w, id) > 0 /\ PostedOn(v, id) > 0)

\* C3: when nothing is in flight any more, every id of the batch started by
\* startCompression has been posted and has had its Result handled: no job
\* of the batch is dropped.
C3_EveryJobAnswered == (Quiescent /\ batch # {}) => done = batch

\* C4: the manager is Idle (processing = FALSE) only when a Result has
\* arrived for every job of the current batch: none is still queued or in
\* flight.
C4_IdleOnlyAfterAllResults == ~processing => done = batch

\* C5: once a Result, success or failure, has arrived for every job of the
\* batch, the manager is Idle and the compress button is enabled again.
C5_AllResultsThenIdle ==
    (batch # {} /\ done = batch) => (~processing /\ ~compressBtnDisabled)

\* C6: dispatch is work-conserving: no quiescent state has a non-empty
\* pending queue together with an idle worker.
C6_WorkConserving ==
    Quiescent => (processingQueue = <<>> \/ IdleWorkers(workerStatus) = {})

\* C7: a failure Result does not stop the batch: the jobs queued when it
\* arrived are all dispatched, so none is left in the queue once nothing is
\* in flight.
C7_FailureDoesNotStopBatch == (Quiescent /\ failed) => processingQueue = <<>>

\* C8: files submitted while the batch is running join the batch: once
\* nothing is in flight, each of them has had its Result handled and the
\* manager is Idle.
C8_ResubmissionJoinsBatch ==
    (Quiescent /\ refused) => (DOMAIN files \subseteq done /\ ~processing)

C10_LateResultOnlyFreesWorker ==
    [][\A w \in Workers :
          (/\ errors' = errors
           /\ \E i \in 1..Len(jobs[w]) :
                 /\ jobs[w][i] \in Cleared
                 /\ jobs'[w] = RemoveAt(jobs[w], i))
          => /\ workerStatus' = [workerStatus EXCEPT ![w] = FALSE]
             /\ UNCHANGED <<files, urlCleanupMap, objectUrls, resultItems,
                            processingQueue, processing, compressBtnDisabled, timers>>]_vars

\* C10 witness: a late Result has been discarded while a new batch is queued
\* and running, and the worker that sent it is idle.
C10_Witness ==
    /\ late
    /\ processing
    /\ processingQueue # <<>>
    /\ IdleWorkers(workerStatus) # {}

\* C11: a worker error event raised while the worker holds a job returns the
\* slot to idle and does not stall the manager: once nothing is in flight any
\* more, no job is left in the pending queue and the batch has returned to
\* Idle.
C11_WorkerErrorDoesNotStall ==
    (Quiescent /\ errors > 0 /\ batch # {}) => (processingQueue = <<>> /\ ~processing)

\* The worker has left getImageOrientation with a value and has not yet
\* posted its Result.
Oriented == wpc \in {"oriented", "planned", "drawn"}

\* The worker has planned the canvas and has not yet posted its Result.
Planned == wpc \in {"planned", "drawn"}

\* C12: getImageOrientation never fails, whatever the bytes: no Result
\* reports a failed read of the buffer, so a decodable image with malformed
\* metadata never becomes a failure Result.
C12_OrientationReadNeverFails ==
    \A i \in 1..Len(posted) : posted[i].error # "RangeError"

\* C13: every value getImageOrientation returns is an orientation code,
\* between 1 and 8.
C13_OrientationInRange == Oriented => orientation \in 1..8

\* C14: for a buffer that starts with SOI, continues with zero or more
\* segments that are not metadata segments and then has a metadata segment
\* with a valid signature whose first directory holds an orientation entry of
\* value c in 1..8, getImageOrientation returns exactly c, in either byte
\* order.
C14_WellFormedOrientationRead ==
    \A c \in 1..8 :
        ((Oriented \/ wpc = "posted") /\ data.imageData \in WellFormedByCode[c]) =>
            /\ Oriented => orientation = c
            /\ \A i \in 1..Len(posted) : posted[i].error # "RangeError"

\* C14 witness: the orientation has been read from a little-endian buffer in
\* which a segment precedes the metadata segment, the directory does not
\* follow the TIFF header directly and an entry precedes the orientation
\* entry.
C14_Witness ==
    /\ wpc = "oriented"
    /\ data.imageData = Jpeg(1, TRUE, 2, 1, 8)
    /\ orientation = 8

\* C15: the surface that is encoded has the scaled height as its width and
\* the scaled width as its height for the orientation codes 5 to 8, and the
\* scaled width and height, unswapped, for the codes 1 to 4.
C15_SurfaceSwappedForRotation ==
    wpc = "drawn" =>
        /\ orientation \in 5..8 =>
              (canvas.width = scaled.height /\ canvas.height = scaled.width)
        /\ orientation \in 1..4 =>
              (canvas.width = scaled.width /\ canvas.height = scaled.height)

\* n is a nearest integer to a / b.
Nearest(n, a, b) == 2 * b * n - b <= 2 * a /\ 2 * a <= 2 * b * n + b

\* C16: when the bitmap is wider than maxWidth or higher than maxHeight, both
\* dimensions are scaled by the smaller of maxWidth / width and
\* maxHeight / height and rounded to the nearest integer, and neither scaled
\* dimension exceeds its bound.
C16_ScaledToFit ==
    (Planned /\ (image.width > data.options.maxWidth
                    \/ image.height > data.options.maxHeight)) =>
        /\ \E r \in {<<data.options.maxWidth, image.width>>,
                     <<data.options.maxHeight, image.height>>} :
              /\ r[1] * image.width <= data.options.maxWidth * r[2]
              /\ r[1] * image.height <= data.options.maxHeight * r[2]
              /\ Nearest(scaled.width, image.width * r[1], r[2])
              /\ Nearest(scaled.height, image.height * r[1], r[2])
        /\ scaled.width <= data.options.maxWidth
        /\ scaled.height <= data.options.maxHeight

\* C16 witness: a bitmap that exceeds both bounds has been scaled down in
\* both dimensions, and its scaled height is a value rounded upwards.
C16_Witness ==
    /\ wpc = "planned"
    /\ image.width > data.options.maxWidth
    /\ image.height > data.options.maxHeight
    /\ scaled.width < image.width
    /\ scaled.height < image.height
    /\ scaled.height * image.width > image.height * data.options.maxWidth

C18_NoScalingWithinBounds ==
    (Planned /\ image.width <= data.options.maxWidth
             /\ image.height <= data.options.maxHeight) =>
        scaled = [width |-> image.width, height |-> image.height]

\* C18 witness: a canvas has been planned for a bitmap smaller than the
\* bounds in both dimensions.
C18_Witness ==
    /\ wpc = "planned"
    /\ image.width < data.options.maxWidth
    /\ image.height < data.options.maxHeight
    /\ scaled = [width |-> image.width, height |-> image.height]

\* C19: for the Job message it has received the worker posts one Result and
\* no more, with the id and the filename of the message; a failure Result
\* has success = false, an error message and no compressed bytes, a success
\* Result has compressed bytes and no error.
C19_OneResultPerJob ==
    /\ wpc \in {"received", "decoded", "scanning", "oriented", "planned", "drawn"}
          => posted = <<>>
    /\ wpc = "posted" =>
          /\ Len(posted) = 1
          /\ posted[1].id = data.id
          /\ posted[1].filename = data.filename
          /\ posted[1].success =>
                (posted[1].compressedData # Undefined /\ posted[1].error = Undefined)
          /\ ~posted[1].success =>
                (posted[1].compressedData = Undefined /\ posted[1].error # Undefined)

\* C19 witness: the worker has answered a Job message whose bytes do not
\* decode with a failure Result.
C19_Witness ==
    /\ wpc = "posted"
    /\ data.filename = "b.png"
    /\ data.id = 2
    /\ ~posted[1].success

\* The preview URLs registered in urlCleanupMap.
RegisteredUrls == UNION {urlCleanupMap[id] : id \in DOMAIN urlCleanupMap}

\* C20: preview URLs are never leaked: every URL created and not yet revoked
\* is registered in urlCleanupMap under the id of a file that is still in the
\* registry (so the URLs of a superseded result item have been revoked when
\* the new ones are registered), and after clearAll no unrevoked URL remains.
C20_NoUrlLeak ==
    /\ objectUrls = RegisteredUrls
    /\ DOMAIN urlCleanupMap \subseteq DOMAIN files
    /\ files = <<>> => objectUrls = {}

\* C20 witness: the result item of a file has been replaced by a newer one,
\* and the URLs of another file are registered as well.
C20_Witness ==
    /\ superseded
    /\ Cardinality(DOMAIN urlCleanupMap) >= 2
    /\ objectUrls # {}

\* The workers whose busy flag is set.
BusyWorkers == {w \in DOMAIN workerStatus : workerStatus[w]}

\* C21: at every instant, whatever the interleaving of submissions,
\* completions, clearAll and worker error events, the number of workers
\* marked busy is at most the pool size fixed at startup.
C21_BusyWithinPool == Cardinality(BusyWorkers) <= NumWorkers

\* C21 witness: after a worker error event and a clearAll, every worker of
\* the pool is marked busy.
C21_Witness ==
    /\ errors > 0
    /\ Cleared # {}
    /\ Cardinality(BusyWorkers) = NumWorkers

\* C22: a worker's busy flag is true exactly while a Job message posted to it
\* awaits its Result: never true when no message is outstanding on the
\* worker, never false while one is.
C22_BusyIffJobOutstanding ==
    \A w \in Workers : workerStatus[w] <=> (jobs[w] # <<>>)

\* The point (x, y) under the canvas's current transform.
MappedX(x, y) == canvas.transform[1] * x + canvas.transform[3] * y + canvas.transform[5]
MappedY(x, y) == canvas.transform[2] * x + canvas.transform[4] * y + canvas.transform[6]

\* C23: for each orientation code 1..8 the transform in force when the bitmap
\* is drawn maps the drawn rectangle (0,0)-(scaled width, scaled height)
\* exactly onto the rectangle of the surface, (0,0)-(canvas width, canvas
\* height): nothing is cropped and nothing is left blank.
C23_TransformFillsSurface ==
    (wpc = "drawn" /\ orientation \in 1..8) =>
        /\ {MappedX(0, 0), MappedX(scaled.width, scaled.height)} = {0, canvas.width}
        /\ {MappedY(0, 0), MappedY(scaled.width, scaled.height)} = {0, canvas.height}

\* C24: the compressedDimensions of a success Result are the width and the
\* height of the surface that was encoded, the canvas as applyOrientation
\* left it, for every orientation code.
C24_ReportedDimensionsAreCanvas ==
    \A i \in 1..Len(posted) :
        posted[i].success =>
            posted[i].compressedDimensions = [width |-> canvas.width, height |-> canvas.height]

\* C25: for positive bitmap sizes and positive bounds the planned scaled
\* width and height are both at least 1: rounding never yields a surface
\* without pixels.
C25_ScaledAtLeastOne ==
    Planned => (scaled.width >= 1 /\ scaled.height >= 1)

\* C26: a file is marked processed only if the Result handled last for it
\* was a success: in the state that follows the handling of a failure Result
\* for a registered file, the file is not marked processed.  (The step that
\* handles the first failure Result of a batch is the one that sets the
\* history variable failed; the Result is that of the job that leaves jobs.)
C26_FailureClearsProcessed ==
    [][(~failed /\ failed') =>
          \A w \in Workers : \A i \in 1..Len(jobs[w]) :
              (jobs'[w] = RemoveAt(jobs[w], i) /\ jobs[w][i] \in DOMAIN files)
                  => ~files'[jobs[w][i]].processed]_vars

\* C27: the marker walk of getImageOrientation ends on every buffer: each
\* turn of the loop leaves the loop or moves the offset forward by at least
\* 2, also over a segment of stored length 0, so that after k turns the
\* offset is at least 2 + 2k and the loop takes at most length / 2 turns.
C27_MarkerWalkTerminates ==
    /\ 2 * turns <= Len(data.imageData)
    /\ wpc = "scanning" => offset >= 2 + 2 * turns

\* C27 witness: the loop has stepped over a segment whose stored length is 0
\* and goes on.
C27_Witness ==
    /\ wpc = "scanning"
    /\ turns = 1
    /\ offset = 4
    /\ GetUint16(data.imageData, 4, FALSE) = 0

====
